---------------------------- MODULE Spec2Model ----------------------------
(***************************************************************************)
(* NudgeAI: compliance-gated multi-channel delivery.                       *)
(*                                                                         *)
(* Time is an integer number of hours since a Sunday 00:00 (local time).   *)
(* A Date is that integer; an optional value is a sequence of length <= 1  *)
(* (<<>> is undefined/null, <<v>> is v).  A text (message content, rule    *)
(* phrase) is modelled by the set of phrases that occur in it.             *)
(***************************************************************************)
EXTENDS Integers, Sequences, FiniteSets, TLC

VARIABLES
    now,                  \* the wall clock (hours)
    consentHistory,       \* CustomerComplianceProfile.consentHistory
    communicationHistory, \* CustomerComplianceProfile.communicationHistory
    pc,                   \* per compliance worker: position in checkCompliance
    wreq,                 \* per worker: the ComplianceCheckRequest being checked
    wprofile,             \* per worker: the profile read by getCustomerComplianceProfile
    wresult,              \* per worker: the last ComplianceCheckResult returned (optional)
    lastFrequencyCheck,   \* the last result of checkFrequencyLimits, with its inputs (optional)
    lastRetryDecision,    \* the result of shouldRetry, with its inputs, if it was called last
    lastClassification,   \* the result of classifyError, with its input, if it was called last
    lastSchedule,         \* the result of calculateNextRetry, with its inputs
    lastChannelChoice,    \* the result of determineNextChannel, with its inputs
    lastWebhook,          \* the last provider webhook handled: payload, parsed result, logged event
    lastTcpaTime,         \* the results of the shared calling-hours helpers, with their inputs
    lastEvaluation,       \* the last verdict of the rule evaluator, with its inputs (optional)
    hpc,                  \* per send handler: position in handleSend
    hmessage,             \* per send handler: the CommunicationMessage it holds (optional)
    complianceChecks,     \* the ComplianceChecks performComplianceCheck has returned
    queue,                \* the messages handed to queueCommunication, in order
    eventLog,             \* the events handed to logCommunicationEvent, in order
    responses,            \* the responses handleSend has returned, in order
    nextId,               \* the number of message ids generated so far
    message,              \* the CommunicationMessage whose delivery is followed (optional)
    state,                \* its state in the delivery state machine
    msgNextAllowedTime,   \* the nextAllowedTime recorded when it was blocked (optional)
    attempts              \* its DeliveryAttempts, in order

cvars == <<now, consentHistory, communicationHistory, pc, wreq, wprofile, wresult>>
fvars == <<lastFrequencyCheck>>
evars ==
    <<lastRetryDecision, lastClassification, lastSchedule, lastChannelChoice, lastWebhook,
      lastTcpaTime>>
qvars == <<lastEvaluation>>
svars == <<hpc, hmessage, complianceChecks, queue, eventLog, responses, nextId>>
mvars == <<message, state, msgNextAllowedTime, attempts>>
vars == <<cvars, fvars, evars, qvars, svars, mvars>>

----------------------------------------------------------------------------
(* Bounds of the model *)

MaxTime == 15
TickHours == 3
MaxHistory == 4
\* The hour at which the model starts: Sunday, before the calling-hour window
StartHour == 6
\* Frequency checks on drawn histories: the most records drawn, and the time of
\* the check (Tuesday 10:00)
MaxRecords == 7
FreqNow == 58
\* Send service: the most send requests received
MaxRequests == 3
\* Delivery: the hours the clock advances in one step
StepHours == 6

Workers == {"w1", "w2"}
Handlers == {"h1", "h2"}

----------------------------------------------------------------------------
(* Generic helpers *)

IfSeq(cond, v) == IF cond THEN <<v>> ELSE <<>>

RECURSIVE FilterSeq(_, _)
FilterSeq(s, keep) ==
    IF s = <<>> THEN <<>>
    ELSE IfSeq(Head(s) \in keep, Head(s)) \o FilterSeq(Tail(s), keep)

\* Array.prototype.find: the first element of s in the set wanted, as an optional
FindFirst(s, wanted) ==
    LET idx == {i \in DOMAIN s : s[i] \in wanted}
    IN  IF idx = {} THEN <<>>
        ELSE <<s[CHOOSE i \in idx : \A j \in idx : i <= j]>>

MaxOf(S) == CHOOSE x \in S : \A y \in S : y <= x

Min2(a, b) == IF a <= b THEN a ELSE b

\* String.prototype.includes: p occurs in the string s
Contains(s, p) == \E i \in 1..(Len(s) - Len(p) + 1) : SubSeq(s, i, i + Len(p) - 1) = p

RECURSIVE Pow(_, _)
Pow(b, e) == IF e = 0 THEN 1 ELSE b * Pow(b, e - 1)

----------------------------------------------------------------------------
(* Dates *)

getHours(t) == t % 24
toDateString(t) == t \div 24
getDay(t) == (t \div 24) % 7

\* setDate(getDate() - getDay()): back to Sunday, the time of day is kept
getWeekStart(t) == t - getDay(t) * 24

\* setDate(getDate() + 1); setHours(h, 0, 0, 0)
NextDayAt(t, h) == (toDateString(t) + 1) * 24 + h
SameDayAt(t, h) == toDateString(t) * 24 + h

----------------------------------------------------------------------------
(* Texts *)

Channels == {"email", "sms", "phone"}

toLowerCase(s) ==
    CASE s = "This is an attempt to collect a debt" -> "this is an attempt to collect a debt"
      [] s = "Name of creditor" -> "name of creditor"
      [] s = "Amount of debt" -> "amount of debt"
      [] s = "Right to dispute the debt" -> "right to dispute the debt"
      [] s = "Invalid recipient" -> "invalid recipient"
      [] s = "Rate limit exceeded" -> "rate limit exceeded"
      [] s = "Compliance violation detected" -> "compliance violation detected"
      [] s = "Something went wrong" -> "something went wrong"
      [] OTHER -> s

\* content.toLowerCase(): the lower-cased phrases occurring in the content
LowerContent(content) == {toLowerCase(p) : p \in content}

\* lowerContent.includes(term.toLowerCase())
includes(content, term) == toLowerCase(term) \in LowerContent(content)

\* text.toLowerCase().includes(pattern): the pattern occurs in a phrase of the text
TextIncludes(text, pattern) == \E p \in LowerContent(text) : Contains(p, pattern)

----------------------------------------------------------------------------
(* Rule set *)

loadComplianceRules ==
    [tcpa |->
        [callingHours |-> [start |-> 8, end |-> 21],
         maxDailyCalls |-> 3,
         maxWeeklyCalls |-> 7,
         maxDailyTexts |-> 5,
         maxWeeklyTexts |-> 14,
         consentRequired |-> TRUE,
         prohibitedContent |-> <<"threat", "harassment", "abuse", "violence">>],
     fdcpa |->
        [requiredDisclosures |->
            <<"This is an attempt to collect a debt", "Name of creditor",
              "Amount of debt", "Right to dispute the debt">>,
         maxDailyContacts |-> 7,
         maxWeeklyContacts |-> 21,
         callFrequencyRules |-> [minHoursBetweenCalls |-> 2]]]

containsProhibitedContent(content, prohibitedTerms) ==
    \E i \in DOMAIN prohibitedTerms : includes(content, prohibitedTerms[i])

validateRequiredDisclosures(content, requiredDisclosures) ==
    [present |-> FilterSeq(requiredDisclosures,
                    {d \in {requiredDisclosures[i] : i \in DOMAIN requiredDisclosures} :
                        includes(content, d)}),
     missing |-> FilterSeq(requiredDisclosures,
                    {d \in {requiredDisclosures[i] : i \in DOMAIN requiredDisclosures} :
                        ~includes(content, d)})]

Violation(type, severity, desc) == [type |-> type, severity |-> severity, desc |-> desc]
Warning(type, severity, desc) == [type |-> type, severity |-> severity, desc |-> desc]

----------------------------------------------------------------------------
(* Profile queries shared by the checks *)

\* communicationHistory.filter(c => date(c) === today && c.channel === channel)
TodayComms(profile, channel, t) ==
    {i \in DOMAIN profile.communicationHistory :
        /\ toDateString(profile.communicationHistory[i].timestamp) = toDateString(t)
        /\ profile.communicationHistory[i].channel = channel}

\* communicationHistory.filter(c => new Date(c.timestamp) >= thisWeek && c.channel === channel)
WeekComms(profile, channel, t) ==
    {i \in DOMAIN profile.communicationHistory :
        /\ profile.communicationHistory[i].timestamp >= getWeekStart(t)
        /\ profile.communicationHistory[i].channel = channel}

\* communicationHistory.filter(c => date(c) === today)
AllTodayComms(profile, t) ==
    {i \in DOMAIN profile.communicationHistory :
        toDateString(profile.communicationHistory[i].timestamp) = toDateString(t)}

\* A lookup that takes the consent given for any channel
FindConsentOfAnyChannel(profile, channel) ==
    FindFirst(profile.consentHistory,
              {c \in {profile.consentHistory[i] : i \in DOMAIN profile.consentHistory} :
                  c.granted /\ c.revokedAt = <<>>})

\* consentHistory.find(c => c.type === channel && c.granted && !c.revokedAt)
FindConsent(profile, channel) ==
    FindFirst(profile.consentHistory,
              {c \in {profile.consentHistory[i] : i \in DOMAIN profile.consentHistory} :
                  c.type = channel /\ c.granted /\ c.revokedAt = <<>>})

\* consent.expiresAt && new Date(consent.expiresAt) < new Date()
ConsentExpired(consent, t) == consent.expiresAt # <<>> /\ consent.expiresAt[1] < t


----------------------------------------------------------------------------
(* Rule Evaluator: the checks of the compliance service (t is new Date()) *)

checkTcpaCompliance(request, customerProfile, rules, t) ==
    LET consent == FindConsent(customerProfile, request.channel)
        todayComms == TodayComms(customerProfile, request.channel, t)
        weekComms == WeekComms(customerProfile, request.channel, t)
        dailyLimit == IF request.channel = "sms" THEN rules.maxDailyTexts
                      ELSE rules.maxDailyCalls
        weeklyLimit == IF request.channel = "sms" THEN rules.maxWeeklyTexts
                       ELSE rules.maxWeeklyCalls
        limited == request.channel = "sms" \/ request.channel = "phone"
    IN  [violations |->
            IfSeq(rules.consentRequired /\ consent = <<>>,
                  Violation("TCPA_CONSENT_MISSING", "high", "tcpa: missing required consent"))
         \o IfSeq(rules.consentRequired /\ consent # <<>> /\ ConsentExpired(consent[1], t),
                  Violation("TCPA_CONSENT_MISSING", "high", "tcpa: consent has expired"))
         \o IfSeq(getHours(t) < rules.callingHours.start \/ getHours(t) > rules.callingHours.end,
                  Violation("TCPA_TIME_RESTRICTION", "high", "tcpa: outside allowed hours"))
         \o IfSeq(limited /\ Cardinality(todayComms) >= dailyLimit,
                  Violation("TCPA_CONSENT_MISSING", "medium", "tcpa: daily limit exceeded"))
         \o IfSeq(limited /\ Cardinality(weekComms) >= weeklyLimit,
                  Violation("TCPA_CONSENT_MISSING", "medium", "tcpa: weekly limit exceeded"))
         \o IfSeq(containsProhibitedContent(request.content, rules.prohibitedContent),
                  Violation("CONTENT_PROHIBITED", "high", "tcpa: prohibited content")),
         warnings |-> <<>>]

FdcpaProhibitedPatterns ==
    <<"threaten violence", "arrest without cause", "misrepresent amount", "false legal action">>

RECURSIVE PracticeViolations(_, _)
PracticeViolations(content, patterns) ==
    IF patterns = <<>> THEN <<>>
    ELSE IfSeq(Head(patterns) \in LowerContent(content),
               Violation("FDCPA_HARASSMENT", "high", "fdcpa: prohibited practice"))
         \o PracticeViolations(content, Tail(patterns))

checkFdcpaCompliance(request, customerProfile, rules, t) ==
    LET disclosureValidation ==
            validateRequiredDisclosures(request.content, rules.requiredDisclosures)
        todayComms == AllTodayComms(customerProfile, t)
        calls == {customerProfile.communicationHistory[i].timestamp :
                    i \in {j \in DOMAIN customerProfile.communicationHistory :
                             customerProfile.communicationHistory[j].channel = "phone"}}
        \* sort by timestamp descending, element [0]
        lastCall == IF calls = {} THEN <<>> ELSE <<MaxOf(calls)>>
    IN  [violations |->
            IfSeq(Len(disclosureValidation.missing) > 0,
                  Violation("FDCPA_DISCLOSURE_MISSING", "high", "fdcpa: missing required disclosures"))
         \o IfSeq(Cardinality(todayComms) >= rules.maxDailyContacts,
                  Violation("FDCPA_HARASSMENT", "high", "fdcpa: daily contact limit exceeded"))
         \o IfSeq(/\ lastCall # <<>>
                  /\ request.channel = "phone"
                  /\ (t - lastCall[1]) < rules.callFrequencyRules.minHoursBetweenCalls,
                  Violation("FDCPA_HARASSMENT", "medium", "fdcpa: insufficient time between calls"))
         \o PracticeViolations(request.content, FdcpaProhibitedPatterns),
         warnings |-> <<>>]

ContentRiskTerms == {"urgent", "immediate action", "final notice", "legal consequences"}

validateContent(content, strategy, rules) ==
    [violations |->
        IfSeq(containsProhibitedContent(content, rules.tcpa.prohibitedContent),
              Violation("CONTENT_PROHIBITED", "high", "content: prohibited terms"))
     \o IfSeq(Len(validateRequiredDisclosures(content, rules.fdcpa.requiredDisclosures).missing) > 0,
              Violation("FDCPA_DISCLOSURE_MISSING", "high", "content: missing required disclosures")),
     warnings |->
        IfSeq(ContentRiskTerms \cap LowerContent(content) # {},
              Warning("CONTENT_RISK", "medium", "content: potentially concerning terms"))]

verifyConsent(request, customerProfile, rules, t) ==
    LET consent == FindConsent(customerProfile, request.channel)
        none == [violations |-> <<>>, warnings |-> <<>>]
    IN  IF ~rules.consentRequired THEN none
        ELSE IF consent = <<>> THEN
            [violations |-> <<Violation("TCPA_CONSENT_MISSING", "high", "consent: no valid consent found")>>,
             warnings |-> <<>>]
        ELSE IF ConsentExpired(consent[1], t) THEN
            [violations |-> <<Violation("TCPA_CONSENT_MISSING", "high", "consent: expired")>>,
             warnings |-> <<>>]
        ELSE
            [violations |-> <<>>,
             warnings |->
                \* daysUntilExpiry = ceil((expiresAt - now) / 24h) <= 30
                IfSeq(consent[1].expiresAt # <<>> /\ (consent[1].expiresAt[1] - t) <= 30 * 24,
                      Warning("CONSENT_EXPIRING", "medium", "consent: expires soon"))
             \o IfSeq(/\ request.channel = "phone"
                      /\ consent[1].method = "verbal"
                      /\ ~consent[1].ipAddress,
                      Warning("CONSENT_EXPIRING", "low", "consent: verbal consent undocumented"))]

checkFrequencyLimits(customerId, channel, customerProfile, rules, t) ==
    LET todayComms == TodayComms(customerProfile, channel, t)
        weekComms == WeekComms(customerProfile, channel, t)
        allTodayComms == AllTodayComms(customerProfile, t)
    IN  [violations |->
            IfSeq(channel = "sms" /\ Cardinality(todayComms) >= rules.tcpa.maxDailyTexts,
                  Violation("TCPA_CONSENT_MISSING", "medium", "frequency: daily SMS limit exceeded"))
         \o IfSeq(channel = "sms" /\ Cardinality(weekComms) >= rules.tcpa.maxWeeklyTexts,
                  Violation("TCPA_CONSENT_MISSING", "medium", "frequency: weekly SMS limit exceeded"))
         \o IfSeq(channel = "phone" /\ Cardinality(todayComms) >= rules.tcpa.maxDailyCalls,
                  Violation("TCPA_CONSENT_MISSING", "medium", "frequency: daily call limit exceeded"))
         \o IfSeq(channel = "phone" /\ Cardinality(weekComms) >= rules.tcpa.maxWeeklyCalls,
                  Violation("TCPA_CONSENT_MISSING", "medium", "frequency: weekly call limit exceeded"))
         \o IfSeq(Cardinality(allTodayComms) >= rules.fdcpa.maxDailyContacts,
                  Violation("FDCPA_HARASSMENT", "high", "frequency: daily contact limit exceeded")),
         warnings |->
            \* todayComms.length >= maxDailyTexts * 0.8
            IfSeq(channel = "sms" /\ Cardinality(todayComms) * 10 >= rules.tcpa.maxDailyTexts * 8,
                  Warning("FREQUENCY_LIMIT", "medium", "frequency: approaching daily SMS limit"))]

\* The start of the window on the day of the call, whatever the hour
getNextAllowedTimeToday(customerId, channel, timezone, customerProfile, rules, t) ==
    SameDayAt(t, rules.callingHours.start)

getNextAllowedTime(customerId, channel, timezone, customerProfile, rules, t) ==
    LET currentHour == getHours(t)
        afterHours ==
            IF currentHour < rules.callingHours.start THEN SameDayAt(t, rules.callingHours.start)
            ELSE IF currentHour > rules.callingHours.end THEN NextDayAt(t, rules.callingHours.start)
            ELSE t
        todayComms == TodayComms(customerProfile, channel, t)
        dailyLimit == IF channel = "sms" THEN rules.maxDailyTexts ELSE rules.maxDailyCalls
        afterDaily ==
            IF Cardinality(todayComms) >= dailyLimit
            THEN NextDayAt(afterHours, rules.callingHours.start)
            ELSE afterHours
        thisWeek == getWeekStart(t)
        weekComms == WeekComms(customerProfile, channel, t)
        weeklyLimit == IF channel = "sms" THEN rules.maxWeeklyTexts ELSE rules.maxWeeklyCalls
    IN  IF Cardinality(weekComms) >= weeklyLimit
        THEN SameDayAt(thisWeek + 7 * 24, rules.callingHours.start)
        ELSE afterDaily

\* An entry that classifies by the warnings first
createAuditEntryWarningsFirst(request, result, t) ==
    [timestamp |-> t,
     communicationId |-> request.communicationId,
     checkType |-> request.channel,
     result |-> IF Len(result.warnings) > 0 THEN "WARNING"
                ELSE IF Len(result.violations) > 0 THEN "FAIL" ELSE "PASS",
     violations |-> [i \in DOMAIN result.violations |-> result.violations[i].desc],
     warnings |-> [i \in DOMAIN result.warnings |-> result.warnings[i].desc]]

\* result.violations.length > 0 ? 'FAIL' : (result.warnings.length > 0 ? 'WARNING' : 'PASS')
createAuditEntry(request, result, t) ==
    [timestamp |-> t,
     communicationId |-> request.communicationId,
     checkType |-> request.channel,
     result |-> IF Len(result.violations) > 0 THEN "FAIL"
                ELSE IF Len(result.warnings) > 0 THEN "WARNING" ELSE "PASS",
     violations |-> [i \in DOMAIN result.violations |-> result.violations[i].desc],
     warnings |-> [i \in DOMAIN result.warnings |-> result.warnings[i].desc]]

\* A gate that also lets warnings block
CanProceedStrict(allViolations, allWarnings) ==
    Len(allViolations) = 0 /\ Len(allWarnings) = 0

\* const canProceed = allViolations.length === 0
CanProceed(allViolations, allWarnings) == Len(allViolations) = 0

\* The synchronous part of checkCompliance between its two awaits: all five checks
\* accumulate into one list, then canProceed, nextAllowedTime and the audit entry
EvaluateChecks(request, customerProfile, t) ==
    LET rules == loadComplianceRules
        tcpaResult == checkTcpaCompliance(request, customerProfile, rules.tcpa, t)
        fdcpaResult == checkFdcpaCompliance(request, customerProfile, rules.fdcpa, t)
        contentResult == validateContent(request.content, request.strategy, rules)
        consentResult == verifyConsent(request, customerProfile, rules.tcpa, t)
        frequencyResult == checkFrequencyLimits("customer", request.channel, customerProfile, rules, t)
        allViolations == tcpaResult.violations \o fdcpaResult.violations
                         \o contentResult.violations \o consentResult.violations
                         \o frequencyResult.violations
        allWarnings == tcpaResult.warnings \o fdcpaResult.warnings
                       \o contentResult.warnings \o consentResult.warnings
                       \o frequencyResult.warnings
        canProceed == CanProceed(allViolations, allWarnings)
        nextAllowedTime ==
            IF ~canProceed
            THEN <<getNextAllowedTime("customer", request.channel, "UTC", customerProfile, rules.tcpa, t)>>
            ELSE <<>>
    IN  [compliant |-> canProceed,
         violations |-> allViolations,
         warnings |-> allWarnings,
         auditEntry |-> createAuditEntry(request,
                            [violations |-> allViolations, warnings |-> allWarnings], t),
         canProceed |-> canProceed,
         nextAllowedTime |-> nextAllowedTime]

\* The CommunicationComplianceRecord checkCompliance builds from its result
ComplianceRecord(request, result, t) ==
    [id |-> request.communicationId,
     timestamp |-> t,
     channel |-> request.channel,
     compliant |-> result.canProceed,
     violations |-> [i \in DOMAIN result.violations |-> result.violations[i].type],
     warnings |-> [i \in DOMAIN result.warnings |-> result.warnings[i].type]]


----------------------------------------------------------------------------
(* Inputs *)

FullDisclosure ==
    {"This is an attempt to collect a debt", "Name of creditor",
     "Amount of debt", "Right to dispute the debt"}

Consent(type, expiresAt) ==
    [type |-> type, granted |-> TRUE, method |-> "written", ipAddress |-> TRUE,
     expiresAt |-> expiresAt, revokedAt |-> <<>>]

\* Consent histories of the customer: none; all channels, the sms consent
\* expiring within 30 days
FullConsent == <<Consent("email", <<>>), Consent("sms", <<>>), Consent("phone", <<>>)>>

ConsentProfiles ==
    { <<>>,
      <<Consent("email", <<>>), Consent("sms", <<MaxTime + 24>>), Consent("phone", <<>>)>> }

Request(channel, content) ==
    [communicationId |-> "COMM", channel |-> channel, content |-> content,
     strategy |-> "reminder"]

\* The requests submitted to the compliance service
Requests ==
    { Request("phone", FullDisclosure),
      Request("sms", FullDisclosure \cup {"urgent"}) }

----------------------------------------------------------------------------
(* Compliance Profile Store *)

\* Get(customerId): the customer's stored profile
Get == [consentHistory |-> consentHistory, communicationHistory |-> communicationHistory]

\* AppendComplianceRecord(customerId, record)
AppendComplianceRecord(history, record) == Append(history, record)

----------------------------------------------------------------------------
(* The parts of the system that take no part in a specification stay as  *)
(* they are after construction                                            *)

FrequencyIdle == lastFrequencyCheck = <<>>

ErrorIdle ==
    /\ lastRetryDecision = <<>> /\ lastClassification = <<>>
    /\ lastSchedule = <<>> /\ lastChannelChoice = <<>>
    /\ lastWebhook = <<>> /\ lastTcpaTime = <<>>

EvaluatorIdle == lastEvaluation = <<>>

SendIdle ==
    /\ hpc = [h \in Handlers |-> "idle"]
    /\ hmessage = [h \in Handlers |-> <<>>]
    /\ complianceChecks = {}
    /\ queue = <<>>
    /\ eventLog = <<>>
    /\ responses = <<>>
    /\ nextId = 0

DeliveryIdle ==
    /\ message = <<>>
    /\ state = "none"
    /\ msgNextAllowedTime = <<>>
    /\ attempts = <<>>

----------------------------------------------------------------------------
(* Compliance service: checkCompliance, one instance per worker *)

CInit ==
    /\ FrequencyIdle /\ ErrorIdle /\ EvaluatorIdle /\ SendIdle /\ DeliveryIdle
    /\ now = StartHour
    /\ consentHistory \in ConsentProfiles
    /\ communicationHistory = <<>>
    /\ pc = [w \in Workers |-> "idle"]
    /\ wreq = [w \in Workers |-> <<>>]
    /\ wprofile = [w \in Workers |-> <<>>]
    /\ wresult = [w \in Workers |-> <<>>]

\* checkCompliance up to its first await: the profile is read
BeginCheck(w, request) ==
    /\ pc[w] = "idle"
    /\ pc' = [pc EXCEPT ![w] = "loaded"]
    /\ wreq' = [wreq EXCEPT ![w] = <<request>>]
    /\ wprofile' = [wprofile EXCEPT ![w] = <<Get>>]
    /\ wresult' = [wresult EXCEPT ![w] = <<>>]
    /\ UNCHANGED <<now, consentHistory, communicationHistory, fvars, evars, qvars, svars, mvars>>

\* The same step with the record left out: the result is returned, nothing is
\* appended
FinishCheckUnrecorded(w) ==
    /\ pc[w] = "loaded"
    /\ wresult' = [wresult EXCEPT ![w] = <<EvaluateChecks(wreq[w][1], wprofile[w][1], now)>>]
    /\ pc' = [pc EXCEPT ![w] = "idle"]
    /\ wreq' = [wreq EXCEPT ![w] = <<>>]
    /\ wprofile' = [wprofile EXCEPT ![w] = <<>>]
    /\ UNCHANGED <<now, consentHistory, communicationHistory, fvars, evars, qvars, svars, mvars>>

\* checkCompliance from the profile to its return: the checks run on the profile
\* that was read, the record is appended, the result is returned
FinishCheck(w) ==
    /\ pc[w] = "loaded"
    /\ Len(communicationHistory) < MaxHistory
    /\ LET result == EvaluateChecks(wreq[w][1], wprofile[w][1], now)
       IN  /\ communicationHistory' =
                AppendComplianceRecord(communicationHistory,
                                       ComplianceRecord(wreq[w][1], result, now))
           /\ wresult' = [wresult EXCEPT ![w] = <<result>>]
    /\ pc' = [pc EXCEPT ![w] = "idle"]
    /\ wreq' = [wreq EXCEPT ![w] = <<>>]
    /\ wprofile' = [wprofile EXCEPT ![w] = <<>>]
    /\ UNCHANGED <<now, consentHistory, fvars, evars, qvars, svars, mvars>>

\* checkCompliance when the store rejects the append: the error is rethrown and
\* no result is returned
FailCheck(w) ==
    /\ pc[w] = "loaded"
    /\ pc' = [pc EXCEPT ![w] = "idle"]
    /\ wreq' = [wreq EXCEPT ![w] = <<>>]
    /\ wprofile' = [wprofile EXCEPT ![w] = <<>>]
    /\ UNCHANGED <<now, consentHistory, communicationHistory, wresult,
                   fvars, evars, qvars, svars, mvars>>

\* The clock advances between checks (a check takes well under an hour)
Tick ==
    /\ now + TickHours <= MaxTime
    /\ \A w \in Workers : pc[w] = "idle"
    /\ now' = now + TickHours
    /\ UNCHANGED <<consentHistory, communicationHistory, pc, wreq, wprofile, wresult,
                   fvars, evars, qvars, svars, mvars>>

CNext ==
    \/ \E w \in Workers, request \in Requests : BeginCheck(w, request)
    \/ \E w \in Workers : FinishCheck(w)
    \/ \E w \in Workers : FailCheck(w)
    \/ Tick

Spec == CInit /\ [][CNext]_vars


----------------------------------------------------------------------------
(* Properties of the compliance service *)

Returned == {wresult[w][1] : w \in {v \in Workers : wresult[v] # <<>>}}

\* C1: for every evaluation, canProceed is true iff the violation list of the
\* returned verdict is empty, and compliant equals canProceed (warnings never block)
C1_CanProceedIffNoViolations ==
    \A r \in Returned :
        /\ r.canProceed <=> (Len(r.violations) = 0)
        /\ r.compliant = r.canProceed

\* C1 witness: a verdict with warnings and no violation was returned, and it proceeds
C1_Witness ==
    \E r \in Returned : Len(r.warnings) > 0 /\ Len(r.violations) = 0 /\ r.canProceed

\* The caps of the rule set per channel (email has none)
CappedChannels == {"sms", "phone"}
DailyCap(channel) ==
    IF channel = "sms" THEN loadComplianceRules.tcpa.maxDailyTexts
    ELSE loadComplianceRules.tcpa.maxDailyCalls
WeeklyCap(channel) ==
    IF channel = "sms" THEN loadComplianceRules.tcpa.maxWeeklyTexts
    ELSE loadComplianceRules.tcpa.maxWeeklyCalls

CompliantOn(channel) ==
    {i \in DOMAIN communicationHistory :
        communicationHistory[i].compliant /\ communicationHistory[i].channel = channel}

C5_Serialized ==
    /\ \A w1, w2 \in Workers : (pc[w1] = "loaded" /\ pc[w2] = "loaded") => w1 = w2
    /\ \A w \in Workers :
          pc[w] = "loaded" => wprofile[w][1].communicationHistory = communicationHistory

\* The counts the next evaluation uses: per channel today and this week, and all
\* channels today
ContactBudget ==
    [today |-> [ch \in Channels |-> Cardinality(TodayComms(Get, ch, now))],
     week |-> [ch \in Channels |-> Cardinality(WeekComms(Get, ch, now))],
     allToday |-> Cardinality(AllTodayComms(Get, now))]

RecordOf(record, result) ==
    /\ record.id = result.auditEntry.communicationId
    /\ record.channel = result.auditEntry.checkType
    /\ record.timestamp = result.auditEntry.timestamp
    /\ record.compliant = result.canProceed
    /\ Len(record.violations) = Len(result.auditEntry.violations)

C21_AuditClassification ==
    \A r \in Returned :
        /\ Len(r.violations) > 0 => r.auditEntry.result = "FAIL"
        /\ (Len(r.violations) = 0 /\ Len(r.warnings) > 0) => r.auditEntry.result = "WARNING"
        /\ (Len(r.violations) = 0 /\ Len(r.warnings) = 0) => r.auditEntry.result = "PASS"
        /\ r.auditEntry.result = "FAIL" <=> ~r.canProceed

\* C21 witness: verdicts of all three classes were returned, the failing one with
\* a warning beside its violation
C21_Witness ==
    /\ \E r \in Returned :
          Len(r.violations) > 0 /\ Len(r.warnings) > 0 /\ r.auditEntry.result = "FAIL"
    /\ \E r \in Returned : r.auditEntry.result \in {"WARNING", "PASS"}

----------------------------------------------------------------------------
(* checkFrequencyLimits on drawn histories *)

CompliantRecord(channel, t) ==
    [id |-> "COMM", timestamp |-> t, channel |-> channel, compliant |-> TRUE,
     violations |-> <<>>, warnings |-> <<>>]

\* Histories of up to MaxRecords compliant records, all on one channel and all
\* dated today, in the order they were appended
FreqHistories ==
    LET times == {FreqNow - 2, FreqNow - 1}
        stamps == {ts \in UNION {[1..k -> times] : k \in 0..MaxRecords} :
                     \A i, j \in DOMAIN ts : i <= j => ts[i] <= ts[j]}
    IN  {[i \in DOMAIN ts |-> CompliantRecord(channel, ts[i])] :
            ts \in stamps, channel \in Channels}

FInit ==
    /\ now = FreqNow
    /\ consentHistory = FullConsent
    /\ communicationHistory \in FreqHistories
    /\ pc = [w \in Workers |-> "idle"]
    /\ wreq = [w \in Workers |-> <<>>]
    /\ wprofile = [w \in Workers |-> <<>>]
    /\ wresult = [w \in Workers |-> <<>>]
    /\ FrequencyIdle /\ ErrorIdle /\ EvaluatorIdle /\ SendIdle /\ DeliveryIdle

\* One call of checkFrequencyLimits on the stored profile
CheckFrequency(channel) ==
    /\ lastFrequencyCheck' =
          <<[channel |-> channel,
             result |-> checkFrequencyLimits("customer", channel, Get, loadComplianceRules, now)]>>
    /\ UNCHANGED <<cvars, evars, qvars, svars, mvars>>

FNext == \E channel \in Channels : CheckFrequency(channel)

FreqSpec == FInit /\ [][FNext]_vars

\* The history holds exactly n records, all on this channel
HoldsOnly(channel, n) ==
    /\ Len(communicationHistory) = n
    /\ \A i \in DOMAIN communicationHistory : communicationHistory[i].channel = channel

\* C4: boundary exactness of the daily frequency check, for every channel: exactly
\* dailyLimit compliant records on the channel today make the next check for it
\* return a frequency violation, and dailyLimit - 1 such records make it return none
C4_BoundaryExact ==
    \A f \in {lastFrequencyCheck[i] : i \in DOMAIN lastFrequencyCheck} :
        /\ HoldsOnly(f.channel, DailyCap(f.channel)) => Len(f.result.violations) > 0
        /\ HoldsOnly(f.channel, DailyCap(f.channel) - 1) => Len(f.result.violations) = 0

\* The same boundary on the channels the rule set caps (sms, phone)
C4_BoundaryExactCapped ==
    \A f \in {lastFrequencyCheck[i] : i \in DOMAIN lastFrequencyCheck} :
        f.channel \in CappedChannels =>
            /\ HoldsOnly(f.channel, DailyCap(f.channel)) => Len(f.result.violations) > 0
            /\ HoldsOnly(f.channel, DailyCap(f.channel) - 1) => Len(f.result.violations) = 0

FrequencyWarned(f) ==
    \E i \in DOMAIN f.result.warnings : f.result.warnings[i].type = "FREQUENCY_LIMIT"

\* C25: for every channel with a daily cap, a check made when today's count on the
\* channel has reached 80% of the cap carries a frequency-limit warning and a
\* check made below 80% carries none; below the cap the warning comes without a
\* violation, so it does not block
C25_WarningAtEightyPercent ==
    \A f \in {lastFrequencyCheck[i] : i \in DOMAIN lastFrequencyCheck} :
        f.channel \in CappedChannels =>
            LET count == Cardinality(TodayComms(Get, f.channel, now))
                cap == DailyCap(f.channel)
            IN  /\ count * 10 >= cap * 8 => FrequencyWarned(f)
                /\ count * 10 < cap * 8 => ~FrequencyWarned(f)
                /\ (HoldsOnly(f.channel, count) /\ count * 10 >= cap * 8 /\ count < cap)
                      => Len(f.result.violations) = 0

----------------------------------------------------------------------------
(* The rule evaluator on drawn profiles: the checks of checkCompliance on one *)
(* profile snapshot, at the times the clock passes through                   *)

\* The day of the week of the evaluations (Wednesday)
EvalDay == 3

\* Inside the window, inside it later the same day, after it, and before it
\* the next morning
EvalTimes ==
    {EvalDay * 24 + 9, EvalDay * 24 + 12, EvalDay * 24 + 22, (EvalDay + 1) * 24 + 7}

\* The numbers of records dated on the Sunday and on the day of the evaluations:
\* none, and the counts at which a cap of the rule set is reached
EarlierCounts ==
    LET tcpa == loadComplianceRules.tcpa
    IN  {0, tcpa.maxWeeklyCalls - tcpa.maxDailyCalls, tcpa.maxWeeklyCalls, tcpa.maxWeeklyTexts}

TodayCounts ==
    LET tcpa == loadComplianceRules.tcpa
    IN  {0, tcpa.maxDailyCalls - 1, tcpa.maxDailyCalls, tcpa.maxDailyTexts,
         loadComplianceRules.fdcpa.maxDailyContacts}

\* Histories on one channel: records of Sunday 10:00, then records of 08:00 on
\* the day of the evaluations
EvalHistories ==
    {[i \in 1..(a + b) |->
         CompliantRecord(channel, IF i <= a THEN 10 ELSE EvalDay * 24 + 8)] :
        a \in EarlierCounts, b \in TodayCounts, channel \in Channels}

\* The consent records of one channel: none, a valid one, an expired one, an
\* expired and a valid one in both orders, a revoked and a valid one, and a
\* refusal
ChannelConsents(channel) ==
    LET valid == Consent(channel, <<>>)
        expired == Consent(channel, <<0>>)
        revoked == [Consent(channel, <<>>) EXCEPT !.revokedAt = <<0>>]
        refused == [Consent(channel, <<>>) EXCEPT !.granted = FALSE]
    IN  << <<>>, <<valid>>, <<expired>>, <<expired, valid>>, <<valid, expired>>,
           <<revoked, valid>>, <<refused>> >>

\* Consent histories: the same records for every channel, and consent to email only
EvalConsents ==
    {ChannelConsents("email")[k] \o ChannelConsents("sms")[k] \o ChannelConsents("phone")[k] :
        k \in DOMAIN ChannelConsents("email")}
        \cup {<<Consent("email", <<>>)>>}

EvalRequests ==
    { Request("phone", FullDisclosure), Request("sms", FullDisclosure),
      Request("email", FullDisclosure), Request("sms", {"Payment reminder"}) }

VInit ==
    /\ now \in EvalTimes
    /\ consentHistory \in EvalConsents
    /\ communicationHistory \in EvalHistories
    /\ pc = [w \in Workers |-> "idle"]
    /\ wreq = [w \in Workers |-> <<>>]
    /\ wprofile = [w \in Workers |-> <<>>]
    /\ wresult = [w \in Workers |-> <<>>]
    /\ FrequencyIdle /\ ErrorIdle /\ EvaluatorIdle /\ SendIdle /\ DeliveryIdle

\* The checks of checkCompliance on the profile snapshot, at the time of the clock
EvaluateSnapshot(request) ==
    /\ lastEvaluation' =
          <<[request |-> request, profile |-> Get, at |-> now,
             result |-> EvaluateChecks(request, Get, now)]>>
    /\ UNCHANGED <<cvars, fvars, evars, svars, mvars>>

\* The clock reaches a later time
Later(t) ==
    /\ t > now
    /\ now' = t
    /\ UNCHANGED <<consentHistory, communicationHistory, pc, wreq, wprofile, wresult,
                   fvars, evars, qvars, svars, mvars>>

VNext ==
    \/ \E request \in EvalRequests : EvaluateSnapshot(request)
    \/ \E t \in EvalTimes : Later(t)

EvalSpec == VInit /\ [][VNext]_vars

----------------------------------------------------------------------------
(* Properties of the rule evaluator *)

Evaluated == {lastEvaluation[i] : i \in DOMAIN lastEvaluation}

ViolationsOf(result) == {result.violations[i].desc : i \in DOMAIN result.violations}

\* The violations by kind of constraint
WindowViolations == {"tcpa: outside allowed hours"}

FrequencyViolations ==
    {"tcpa: daily limit exceeded", "tcpa: weekly limit exceeded",
     "fdcpa: daily contact limit exceeded",
     "frequency: daily SMS limit exceeded", "frequency: weekly SMS limit exceeded",
     "frequency: daily call limit exceeded", "frequency: weekly call limit exceeded",
     "frequency: daily contact limit exceeded"}

ConsentViolations ==
    {"tcpa: missing required consent", "tcpa: consent has expired",
     "consent: no valid consent found", "consent: expired"}

ContentViolations ==
    {"tcpa: prohibited content", "fdcpa: missing required disclosures",
     "fdcpa: prohibited practice", "content: prohibited terms",
     "content: missing required disclosures"}

\* C13: whenever an evaluation is blocked, nextAllowedTime is not earlier than the
\* time of the evaluation, and the same request evaluated at nextAllowedTime on the
\* same history has no time-window and no frequency violation, and can proceed
\* unless a consent or content violation still applies
C13_NoSpuriousReblock ==
    \A e \in Evaluated :
        ~e.result.canProceed =>
            LET next == e.result.nextAllowedTime[1]
                again == EvaluateChecks(e.request, e.profile, next)
            IN  /\ next >= e.at
                /\ ViolationsOf(again) \cap (WindowViolations \cup FrequencyViolations) = {}
                /\ ViolationsOf(again) \cap (ConsentViolations \cup ContentViolations) = {}
                       => again.canProceed

\* The times at which the constraints that are violated at t clear: the window
\* at today's or tomorrow's start, the daily cap at tomorrow's start, the weekly
\* cap at the start of next week's first window
ClearTimes(channel, profile, t) ==
    LET tcpa == loadComplianceRules.tcpa
        start == tcpa.callingHours.start
    IN  {t}
        \cup (IF getHours(t) < start THEN {SameDayAt(t, start)}
              ELSE IF getHours(t) > tcpa.callingHours.end THEN {NextDayAt(t, start)}
              ELSE {})
        \cup (IF channel \in CappedChannels
                   /\ Cardinality(TodayComms(profile, channel, t)) >= DailyCap(channel)
              THEN {NextDayAt(t, start)} ELSE {})
        \cup (IF channel \in CappedChannels
                   /\ Cardinality(WeekComms(profile, channel, t)) >= WeeklyCap(channel)
              THEN {(t \div (7 * 24) + 1) * (7 * 24) + start} ELSE {})

\* C14: nextAllowedTime is the earliest time at which the request is inside
\* calling hours and under the channel's daily and weekly caps: the maximum of
\* the times at which the constraints violated now clear, and never later
C14_EarliestAllowedTime ==
    \A e \in Evaluated :
        ~e.result.canProceed =>
            e.result.nextAllowedTime[1] = MaxOf(ClearTimes(e.request.channel, e.profile, e.at))

\* C15: the evaluator is deterministic: two evaluations of the same request on
\* the same profile snapshot under the same rule set give the same compliant and
\* canProceed flags, violations, warnings and nextAllowedTime, whenever they run
C15_Deterministic ==
    [][\A e \in Evaluated, f \in Evaluated' :
          (e.request = f.request /\ e.profile = f.profile) =>
              /\ e.result.compliant = f.result.compliant
              /\ e.result.canProceed = f.result.canProceed
              /\ e.result.violations = f.result.violations
              /\ e.result.warnings = f.result.warnings
              /\ e.result.nextAllowedTime = f.result.nextAllowedTime]_vars

ConsentRecordsOf(profile, channel) ==
    {c \in {profile.consentHistory[i] : i \in DOMAIN profile.consentHistory} : c.type = channel}

\* C16: an evaluation for a customer whose consent history holds no record for
\* the channel of the request has a consent-missing violation, compliant = false
\* and canProceed = false
C16_MissingConsentBlocks ==
    \A e \in Evaluated :
        ConsentRecordsOf(e.profile, e.request.channel) = {} =>
            /\ \E i \in DOMAIN e.result.violations :
                  /\ e.result.violations[i].type = "TCPA_CONSENT_MISSING"
                  /\ e.result.violations[i].desc \in ConsentViolations
            /\ ~e.result.compliant
            /\ ~e.result.canProceed

\* C16 witness: an sms request was evaluated for a customer who has consented
\* to email only, inside calling hours and with no other violation
C16_Witness ==
    \E e \in Evaluated :
        /\ e.request.channel = "sms"
        /\ e.profile.consentHistory # <<>>
        /\ ConsentRecordsOf(e.profile, "sms") = {}
        /\ ViolationsOf(e.result) \subseteq ConsentViolations
        /\ ~e.result.canProceed

\* A channel has valid consent: a record with granted = true, no revokedAt, and
\* expiresAt absent or in the future
ValidConsent(profile, channel, t) ==
    \E c \in ConsentRecordsOf(profile, channel) :
        c.granted /\ c.revokedAt = <<>> /\ (c.expiresAt = <<>> \/ c.expiresAt[1] > t)

\* C17: no consent violation is raised exactly when the channel has valid
\* consent, whatever the order of the records and whatever expired or revoked
\* records the history also holds
C17_ValidConsentIff ==
    \A e \in Evaluated :
        ValidConsent(e.profile, e.request.channel, e.at)
            <=> ViolationsOf(e.result) \cap ConsentViolations = {}

InsideCallingHours(t) ==
    /\ getHours(t) >= loadComplianceRules.tcpa.callingHours.start
    /\ getHours(t) <= loadComplianceRules.tcpa.callingHours.end

UnderCaps(profile, channel, t) ==
    /\ Cardinality(TodayComms(profile, channel, t)) < DailyCap(channel)
    /\ Cardinality(WeekComms(profile, channel, t)) < WeeklyCap(channel)

C19_ValidCommunicationPasses ==
    \A e \in Evaluated :
        (/\ e.request.channel = "email"
         /\ e.request.strategy = "reminder"
         /\ FullDisclosure \subseteq e.request.content
         /\ ~containsProhibitedContent(e.request.content,
                                       loadComplianceRules.tcpa.prohibitedContent)
         /\ InsideCallingHours(e.at)
         /\ e.profile.consentHistory = <<>>
         /\ e.profile.communicationHistory = <<>>)
            => /\ e.result.compliant
               /\ e.result.canProceed
               /\ e.result.violations = <<>>

ViolationTypesOf(result) == {result.violations[i].type : i \in DOMAIN result.violations}

\* C26: each check reports its own kind of violation: a verdict has a violation
\* of type TCPA_CONSENT_MISSING only when a consent check failed, and a request
\* with valid consent that is blocked by frequency caps alone has none of that
\* type
C26_OwnViolationKind ==
    \A e \in Evaluated :
        /\ "TCPA_CONSENT_MISSING" \in ViolationTypesOf(e.result)
              => ViolationsOf(e.result) \cap ConsentViolations # {}
        /\ (/\ ValidConsent(e.profile, e.request.channel, e.at)
            /\ ViolationsOf(e.result) # {}
            /\ ViolationsOf(e.result) \subseteq FrequencyViolations)
              => "TCPA_CONSENT_MISSING" \notin ViolationTypesOf(e.result)

\* The records of the channel dated in the week of t, which begins at the start of
\* its first day (Sunday 00:00)
RecordsOfTheWeek(profile, channel, t) ==
    {i \in DOMAIN profile.communicationHistory :
        /\ profile.communicationHistory[i].timestamp >= (t \div (7 * 24)) * (7 * 24)
        /\ profile.communicationHistory[i].timestamp <= t
        /\ profile.communicationHistory[i].channel = channel}

WeeklyLimitViolations ==
    {"tcpa: weekly limit exceeded",
     "frequency: weekly SMS limit exceeded", "frequency: weekly call limit exceeded"}

\* C27: at every evaluation the count of the week is at least the count of the
\* day, and a weekly cap that the records of the week have reached is detected,
\* on whatever day and at whatever hour the evaluation is made
C27_WeekCountsFromFirstDay ==
    \A e \in Evaluated :
        e.request.channel \in CappedChannels =>
            /\ Cardinality(WeekComms(e.profile, e.request.channel, e.at))
                  >= Cardinality(TodayComms(e.profile, e.request.channel, e.at))
            /\ Cardinality(RecordsOfTheWeek(e.profile, e.request.channel, e.at))
                    >= WeeklyCap(e.request.channel)
                  => ViolationsOf(e.result) \cap WeeklyLimitViolations # {}

----------------------------------------------------------------------------
(* Communication service: the send path *)

\* a || b on an optional a
OrElse(opt, default) == IF opt = <<>> THEN default ELSE opt[1]

\* A CommunicationRequest body; keys are the further keys of customizations
Body(customerId, channel, strategy, templateId, subject, content, keys) ==
    [customerId |-> customerId, invoiceNumber |-> <<>>, channel |-> channel,
     strategy |-> strategy, templateId |-> templateId,
     customizations |-> <<[subject |-> subject, content |-> content, keys |-> keys]>>]

SendBodies ==
    { Body(<<"cust">>, <<"email">>, <<"reminder">>, <<>>, <<"Payment due">>, <<>>, {}),
      Body(<<"cust">>, <<"email">>, <<"reminder">>, <<>>, <<>>, <<>>, {}),
      Body(<<"cust">>, <<"sms">>, <<"negotiation">>, <<"sms-negotiation">>, <<>>, <<>>,
           {"variables"}),
      Body(<<"cust">>, <<"sms">>, <<"negotiation">>, <<"sms-negotiation">>, <<>>, <<>>, {}),
      Body(<<>>, <<"phone">>, <<"final_notice">>, <<>>, <<>>, <<>>, {}),
      Body(<<"cust">>, <<"fax">>, <<"reminder">>, <<>>, <<>>, <<>>, {}),
      Body(<<"cust">>, <<>>, <<"reminder">>, <<>>, <<>>, <<>>, {}),
      Body(<<"cust">>, <<"sms">>, <<>>, <<>>, <<>>, <<>>, {}),
      Body(<<"cust">>, <<"phone">>, <<"threat">>, <<>>, <<>>, <<>>, {}) }

\* A validation that does not look at the strategy
validateCommunicationRequestWithoutStrategy(request) ==
    LET subject == IF request.customizations = <<>> THEN <<>>
                   ELSE request.customizations[1].subject
        errors ==
            IfSeq(request.customerId = <<>>, "Customer ID is required")
         \o IfSeq(request.channel = <<>> \/ request.channel[1] \notin {"email", "sms", "phone"},
                  "Valid channel (email, sms, phone) is required")
         \o IfSeq(request.channel = <<"email">> /\ subject = <<>>, "Email subject is required")
    IN  [isValid |-> Len(errors) = 0, errors |-> errors]

validateCommunicationRequest(request) ==
    LET subject == IF request.customizations = <<>> THEN <<>>
                   ELSE request.customizations[1].subject
        errors ==
            IfSeq(request.customerId = <<>>, "Customer ID is required")
         \o IfSeq(request.channel = <<>> \/ request.channel[1] \notin {"email", "sms", "phone"},
                  "Valid channel (email, sms, phone) is required")
         \o IfSeq(request.strategy = <<>>
                    \/ request.strategy[1] \notin {"reminder", "negotiation", "final_notice"},
                  "Valid strategy (reminder, negotiation, final_notice) is required")
         \o IfSeq(request.channel = <<"email">> /\ subject = <<>>, "Email subject is required")
    IN  [isValid |-> Len(errors) = 0, errors |-> errors]

\* A message that carries a budget of five retries
createCommunicationMessageFiveRetries(request, id, t) ==
    LET customizations == request.customizations
    IN  [id |-> id,
         customerId |-> OrElse(request.customerId, "unknown"),
         invoiceNumber |-> request.invoiceNumber,
         channel |-> OrElse(request.channel, "email"),
         strategy |-> OrElse(request.strategy, "reminder"),
         templateId |-> request.templateId,
         subject |-> IF customizations = <<>> THEN <<>> ELSE customizations[1].subject,
         content |-> IF customizations = <<>> THEN {"Default content"}
                     ELSE OrElse(customizations[1].content, {"Default content"}),
         deliveryStatus |-> "pending",
         sentAt |-> <<>>, deliveredAt |-> <<>>, failedAt |-> <<>>,
         retryCount |-> 0,
         maxRetries |-> 5,
         nextRetryAt |-> <<>>,
         metadata |-> [providerMessageId |-> <<>>, error |-> <<>>],
         createdAt |-> t,
         updatedAt |-> t]

\* id is the fresh part of the generated message id, t is new Date()
createCommunicationMessage(request, id, t) ==
    LET customizations == request.customizations
    IN  [id |-> id,
         customerId |-> OrElse(request.customerId, "unknown"),
         invoiceNumber |-> request.invoiceNumber,
         channel |-> OrElse(request.channel, "email"),
         strategy |-> OrElse(request.strategy, "reminder"),
         templateId |-> request.templateId,
         subject |-> IF customizations = <<>> THEN <<>> ELSE customizations[1].subject,
         content |-> IF customizations = <<>> THEN {"Default content"}
                     ELSE OrElse(customizations[1].content, {"Default content"}),
         deliveryStatus |-> "pending",
         sentAt |-> <<>>, deliveredAt |-> <<>>, failedAt |-> <<>>,
         retryCount |-> 0,
         maxRetries |-> 3,
         nextRetryAt |-> <<>>,
         metadata |-> [providerMessageId |-> <<>>, error |-> <<>>],
         createdAt |-> t,
         updatedAt |-> t]

getTemplateById(templateId) ==
    [id |-> templateId, channel |-> "email", strategy |-> "reminder",
     subject |-> "Mock Subject", content |-> "Mock content with {{variables}}",
     variables |-> <<"variables">>, isActive |-> TRUE]

\* The keys of the variables object handleSend builds from the body
TemplateVariableKeys(body) ==
    {"customerId", "invoiceNumber"}
        \cup (IF body.customizations = <<>> THEN {}
              ELSE body.customizations[1].keys
                   \cup (IF body.customizations[1].subject # <<>> THEN {"subject"} ELSE {})
                   \cup (IF body.customizations[1].content # <<>> THEN {"content"} ELSE {}))

validateTemplateVariables(template, variableKeys) ==
    LET missingVariables ==
            FilterSeq(template.variables,
                      {v \in {template.variables[i] : i \in DOMAIN template.variables} :
                          v \notin variableKeys})
    IN  [isValid |-> Len(missingVariables) = 0, missingVariables |-> missingVariables]

\* Every {{key}} of the template is replaced by the value of the key
renderTemplate(template, variableKeys) ==
    [subject |-> <<template.subject>>,
     content |-> {"Mock content with"} \cup {"value of " \o k : k \in variableKeys \cap {"variables"}}]

performComplianceCheck(customerId, communicationId, channel, content, t) ==
    LET checks == [tcpaCompliance |-> TRUE, doNotCall |-> TRUE,
                   timeRestrictions |-> TRUE, contentRestrictions |-> TRUE]
        score == IF \A k \in DOMAIN checks : checks[k] THEN 100 ELSE 50
        passed == score >= 80
    IN  [communicationId |-> communicationId,
         customerId |-> customerId,
         channel |-> channel,
         content |-> content,
         checks |-> checks,
         score |-> score,
         passed |-> passed,
         warnings |-> IF passed THEN <<>> ELSE <<"Mock compliance warning">>,
         errors |-> IF passed THEN <<>> ELSE <<"Mock compliance error">>,
         checkedAt |-> t]

\* The CommunicationEvent logCommunicationEvent writes
CommunicationEvent(event, messageId, customerId, channel, t) ==
    [type |-> event, messageId |-> messageId, customerId |-> customerId,
     channel |-> channel, timestamp |-> t]

Response(status, body) == [status |-> status, body |-> body]

SInit ==
    /\ now = StartHour
    /\ consentHistory = <<>>
    /\ communicationHistory = <<>>
    /\ pc = [w \in Workers |-> "idle"]
    /\ wreq = [w \in Workers |-> <<>>]
    /\ wprofile = [w \in Workers |-> <<>>]
    /\ wresult = [w \in Workers |-> <<>>]
    /\ FrequencyIdle /\ ErrorIdle /\ EvaluatorIdle /\ SendIdle /\ DeliveryIdle

Respond(h, response) ==
    /\ responses' = Append(responses, response)
    /\ hpc' = [hpc EXCEPT ![h] = "idle"]
    /\ hmessage' = [hmessage EXCEPT ![h] = <<>>]

\* handleSend up to the call of performComplianceCheck: the body is validated, the
\* message is created and the template, if one is named, is applied
ReceiveSend(h, body) ==
    /\ hpc[h] = "idle"
    /\ Len(responses) + Cardinality({g \in Handlers : hpc[g] # "idle"}) < MaxRequests
    /\ LET validation == validateCommunicationRequest(body)
           created == createCommunicationMessage(body, nextId + 1, now)
           template == getTemplateById(body.templateId[1])
           variableKeys == TemplateVariableKeys(body)
           varValidation == validateTemplateVariables(template, variableKeys)
           rendered == renderTemplate(template, variableKeys)
       IN  IF ~validation.isValid THEN
               /\ Respond(h, Response(400, validation.errors))
               /\ UNCHANGED nextId
           ELSE IF body.templateId # <<>> /\ ~varValidation.isValid THEN
               /\ Respond(h, Response(400, varValidation.missingVariables))
               /\ nextId' = nextId + 1
           ELSE
               /\ hmessage' = [hmessage EXCEPT ![h] =
                      <<IF body.templateId # <<>>
                        THEN [created EXCEPT !.subject = rendered.subject,
                                             !.content = rendered.content]
                        ELSE created>>]
               /\ hpc' = [hpc EXCEPT ![h] = "checking"]
               /\ nextId' = nextId + 1
               /\ UNCHANGED responses
    /\ UNCHANGED <<complianceChecks, queue, eventLog, cvars, fvars, evars, qvars, mvars>>

\* The same step with the compliance check left out: the message goes to the queue
SendUnchecked(h) ==
    /\ hpc[h] = "checking"
    /\ queue' = Append(queue, hmessage[h][1])
    /\ hpc' = [hpc EXCEPT ![h] = "queued"]
    /\ UNCHANGED <<hmessage, complianceChecks, responses, eventLog, nextId,
                   cvars, fvars, evars, qvars, mvars>>

\* handleSend from the compliance check to the call of queueCommunication: a check
\* that does not pass ends the request with 403, a passing one queues the message
SendChecked(h) ==
    /\ hpc[h] = "checking"
    /\ LET m == hmessage[h][1]
           complianceCheck == performComplianceCheck(m.customerId, m.id, m.channel, m.content, now)
       IN  /\ complianceChecks' = complianceChecks \cup {complianceCheck}
           /\ IF ~complianceCheck.passed THEN
                  /\ Respond(h, Response(403, complianceCheck.errors))
                  /\ UNCHANGED queue
              ELSE
                  /\ queue' = Append(queue, m)
                  /\ hpc' = [hpc EXCEPT ![h] = "queued"]
                  /\ UNCHANGED <<hmessage, responses>>
    /\ UNCHANGED <<eventLog, nextId, cvars, fvars, evars, qvars, mvars>>

\* handleSend after queueCommunication: the event is logged, 202 is returned
SendLogged(h) ==
    /\ hpc[h] = "queued"
    /\ LET m == hmessage[h][1]
       IN  /\ eventLog' = Append(eventLog,
                  CommunicationEvent("message_sent", m.id, m.customerId, m.channel, now))
           /\ Respond(h, Response(202, <<m.id>>))
    /\ UNCHANGED <<complianceChecks, queue, nextId, cvars, fvars, evars, qvars, mvars>>

SNext ==
    \/ \E h \in Handlers, body \in SendBodies : ReceiveSend(h, body)
    \/ \E h \in Handlers : SendChecked(h)
    \/ \E h \in Handlers : SendLogged(h)

SendSpec == SInit /\ [][SNext]_vars

QueuedIds == {queue[i].id : i \in DOMAIN queue}
SentIds == {eventLog[i].messageId : i \in {j \in DOMAIN eventLog : eventLog[j].type = "message_sent"}}

\* C2: a message is queued only after a compliance check of that same message has
\* passed; a message whose check did not pass is neither queued nor logged as sent;
\* a message is logged as sent only once it is queued
C2_QueuedOnlyAfterPassingCheck ==
    /\ \A i \in DOMAIN queue :
          \E c \in complianceChecks :
              /\ c.communicationId = queue[i].id
              /\ c.channel = queue[i].channel
              /\ c.content = queue[i].content
              /\ c.passed
    /\ \A c \in complianceChecks :
          ~c.passed => c.communicationId \notin QueuedIds \cup SentIds
    /\ SentIds \subseteq QueuedIds

\* C2 witness: a templated message was checked, queued, logged and answered with 202
C2_Witness ==
    /\ \E i \in DOMAIN queue : queue[i].templateId # <<>> /\ queue[i].id \in SentIds
    /\ \E i \in DOMAIN responses : responses[i].status = 202

\* The request lacks a customer, or a channel or strategy of the allowed values
LacksRequiredField(body) ==
    \/ body.customerId = <<>>
    \/ body.channel = <<>> \/ body.channel[1] \notin {"email", "sms", "phone"}
    \/ body.strategy = <<>> \/ body.strategy[1] \notin {"reminder", "negotiation", "final_notice"}

HasSubject(body) ==
    body.customizations # <<>> /\ body.customizations[1].subject # <<>>

\* The step is the receipt of a request by handler h: it is answered with 400 at
\* once, or its message goes on to the compliance check
ReceiptStep(h) ==
    /\ hpc[h] = "idle"
    /\ \/ hpc'[h] = "checking"
       \/ /\ hpc' = hpc
          /\ Len(responses') = Len(responses) + 1
          /\ responses'[Len(responses')].status = 400

\* C22: a send request that lacks customerId, channel or strategy is answered with
\* 400 and a non-empty error list before anything else happens: no message id is
\* drawn, no message is held, nothing is checked, queued or logged; a request
\* that has them (and a subject when the channel is email) has no errors
C22_InvalidRequestRejectedFirst ==
    [][\A h \in Handlers : \A body \in SendBodies :
          (ReceiptStep(h) /\ ReceiveSend(h, body)) =>
              /\ LacksRequiredField(body) =>
                    /\ Len(responses') = Len(responses) + 1
                    /\ responses'[Len(responses')].status = 400
                    /\ Len(responses'[Len(responses')].body) > 0
                    /\ hpc'[h] = "idle"
                    /\ UNCHANGED <<hmessage, complianceChecks, queue, eventLog, nextId>>
              /\ (~LacksRequiredField(body) /\ (body.channel = <<"email">> => HasSubject(body)))
                    => /\ validateCommunicationRequest(body).errors = <<>>
                       /\ nextId' = nextId + 1]_vars

\* C22 witness: after a message was queued, requests without a channel and with a
\* strategy outside the allowed values were answered with 400, and the only
\* messages ever created are the queued ones
C22_Witness ==
    /\ Len(queue) > 0
    /\ \E i \in DOMAIN responses :
          /\ responses[i].status = 400
          /\ responses[i].body = <<"Valid channel (email, sms, phone) is required">>
    /\ \E i \in DOMAIN responses :
          /\ responses[i].status = 400
          /\ responses[i].body
                = <<"Valid strategy (reminder, negotiation, final_notice) is required">>
    /\ nextId = Len(queue)

----------------------------------------------------------------------------
(* Communication service: delivery status and retries *)

defaultRetryLogic ==
    [maxRetries |-> 3,
     retryDelays |-> <<60, 300, 900>>,
     backoffMultiplier |-> 2,
     maxDelaySeconds |-> 3600,
     retryableErrors |-> <<"timeout", "rate_limit", "temporary">>]

\* t is new Date()
updateDeliveryStatus(m, status, providerMessageId, error, t) ==
    [m EXCEPT !.deliveryStatus = status,
              !.sentAt = IF status = "delivered" THEN <<t>> ELSE @,
              !.deliveredAt = IF status = "delivered" THEN <<t>> ELSE @,
              !.failedAt = IF status = "failed" THEN <<t>> ELSE @,
              !.updatedAt = t,
              !.metadata = [providerMessageId |-> providerMessageId, error |-> error]]

\* retryDelays[i] of a zero-based index i: undefined outside the table
DelayAt(retryDelays, i) ==
    IF i + 1 \in DOMAIN retryDelays THEN <<retryDelays[i + 1]>> ELSE <<>>

\* a || b on an optional number: 0 is falsy
NumberOrElse(opt, default) == IF opt = <<>> \/ opt = <<0>> THEN default ELSE opt[1]

\* retryDelays[retryCount] || Math.min((retryDelays[0] || 60) * multiplier^retryCount, max)
RetryDelay(m, retryLogic) ==
    NumberOrElse(DelayAt(retryLogic.retryDelays, m.retryCount),
        Min2(NumberOrElse(DelayAt(retryLogic.retryDelays, 0), 60)
                 * Pow(retryLogic.backoffMultiplier, m.retryCount),
             retryLogic.maxDelaySeconds))

\* The budget test one retry too early
calculateNextRetryEarly(m, retryLogic, seconds) ==
    IF m.retryCount + 1 >= retryLogic.maxRetries THEN <<>>
    ELSE <<seconds + RetryDelay(m, retryLogic)>>

\* seconds is new Date() in seconds; the result is the optional time of the next retry
calculateNextRetry(m, retryLogic, seconds) ==
    IF m.retryCount >= retryLogic.maxRetries THEN <<>>
    ELSE <<seconds + RetryDelay(m, retryLogic)>>

nonRetryableErrors ==
    <<"permanent_failure", "invalid_recipient", "compliance_violation", "blocked">>

\* error && nonRetryableErrors.some(pattern => error.toLowerCase().includes(pattern));
\* error is the optional error text, given by the phrases that occur in it
MatchesNonRetryable(error) ==
    /\ error # <<>>
    /\ \E i \in DOMAIN nonRetryableErrors : TextIncludes(error[1], nonRetryableErrors[i])

\* The budget test off by one
shouldRetryOnceMore(m, error) ==
    IF m.retryCount > m.maxRetries THEN FALSE
    ELSE IF MatchesNonRetryable(error) THEN FALSE
    ELSE TRUE

shouldRetry(m, error) ==
    IF m.retryCount >= m.maxRetries THEN FALSE
    ELSE IF MatchesNonRetryable(error) THEN FALSE
    ELSE TRUE

createDeliveryAttempt(messageId, attemptNumber, provider, t) ==
    [messageId |-> messageId, attemptNumber |-> attemptNumber, status |-> "pending",
     provider |-> provider, startedAt |-> t]

\* error?.message || String(error): error is the optional error text
classifyError(error) ==
    LET errorMessage == OrElse(error, {"undefined"})
        has(pattern) == TextIncludes(errorMessage, pattern)
    IN  IF has("rate limit") \/ has("too many requests") THEN
            [type |-> "rate_limit", retryable |-> TRUE, message |-> errorMessage]
        ELSE IF has("invalid recipient") \/ has("blocked")
                  \/ has("unsubscribed") \/ has("compliance") THEN
            [type |-> IF has("compliance") THEN "compliance" ELSE "permanent",
             retryable |-> FALSE, message |-> errorMessage]
        ELSE IF has("timeout") \/ has("network") \/ has("temporary") THEN
            [type |-> "temporary", retryable |-> TRUE, message |-> errorMessage]
        ELSE
            [type |-> "unknown", retryable |-> TRUE, message |-> errorMessage]

\* a.provider === 'sendgrid' ? 'email' : a.provider === 'twilio' ? 'sms' : 'phone'
AttemptedChannel(attempt) ==
    IF attempt.provider = "sendgrid" THEN "email"
    ELSE IF attempt.provider = "twilio" THEN "sms" ELSE "phone"

allChannels == <<"email", "sms", "phone">>

\* The first channel of allChannels from index i on that was not attempted and
\* is enabled in the preferences; no channel when there is none
RECURSIVE FirstChannelFrom(_, _, _)
FirstChannelFrom(i, attemptedChannels, preferences) ==
    IF i > Len(allChannels) THEN <<>>
    ELSE IF allChannels[i] \notin attemptedChannels /\ preferences[allChannels[i]].enabled
         THEN <<allChannels[i]>>
         ELSE FirstChannelFrom(i + 1, attemptedChannels, preferences)

determineNextChannel(previousAttempts, preferences) ==
    LET attemptedChannels ==
            {AttemptedChannel(previousAttempts[i]) : i \in DOMAIN previousAttempts}
    IN  FirstChannelFrom(1, attemptedChannels, preferences)

\* a || b on optional texts
TextOrElse(opt, other) == IF opt # <<>> THEN opt ELSE other

\* payload is the JSON body of the webhook: each field is optional
parseProviderWebhook(provider, payload) ==
    [messageId |-> OrElse(TextOrElse(payload.message_id, payload.id), "unknown"),
     status |-> IF payload.event = <<"dropped">> \/ payload.event = <<"bounce">>
                   \/ payload.status = <<"failed">> THEN "failed"
                ELSE IF payload.event = <<"processed">> \/ payload.status = <<"queued">>
                     THEN "pending"
                     ELSE "delivered",
     error |-> TextOrElse(payload.error, payload.reason)]

----------------------------------------------------------------------------
(* shouldRetry and classifyError on drawn errors *)

\* The most phrases in one error text
MaxPhrases == 2

\* What providers report, in words and as error codes
ErrorPhrases ==
    {"Rate limit exceeded", "Invalid recipient", "invalid_recipient", "blocked",
     "unsubscribed", "Compliance violation detected", "compliance_violation",
     "permanent_failure", "temporary timeout", "Something went wrong"}

ErrorTexts == {text \in SUBSET ErrorPhrases : Cardinality(text) \in 1..MaxPhrases}

EInit ==
    /\ now = StartHour
    /\ consentHistory = <<>>
    /\ communicationHistory = <<>>
    /\ pc = [w \in Workers |-> "idle"]
    /\ wreq = [w \in Workers |-> <<>>]
    /\ wprofile = [w \in Workers |-> <<>>]
    /\ wresult = [w \in Workers |-> <<>>]
    /\ FrequencyIdle /\ ErrorIdle /\ EvaluatorIdle /\ SendIdle /\ DeliveryIdle

\* One call of shouldRetry on a failed message that has been retried retryCount times
DecideRetry(retryCount, error) ==
    /\ LET created == createCommunicationMessage(
                          Body(<<"cust">>, <<"sms">>, <<"reminder">>, <<>>, <<>>, <<>>, {}), 1, now)
           m == [updateDeliveryStatus(created, "failed", <<>>, error, now)
                    EXCEPT !.retryCount = retryCount]
       IN  lastRetryDecision' = <<[message |-> m, error |-> error, retry |-> shouldRetry(m, error)]>>
    /\ lastClassification' = <<>>
    /\ UNCHANGED <<lastSchedule, lastChannelChoice, lastWebhook, lastTcpaTime, cvars, fvars, qvars, svars, mvars>>

\* One call of classifyError
Classify(error) ==
    /\ lastClassification' = <<[error |-> error, result |-> classifyError(error)]>>
    /\ lastRetryDecision' = <<>>
    /\ UNCHANGED <<lastSchedule, lastChannelChoice, lastWebhook, lastTcpaTime, cvars, fvars, qvars, svars, mvars>>

ENext ==
    \/ \E retryCount \in 0..defaultRetryLogic.maxRetries, error \in {<<>>} \cup {<<text>> : text \in ErrorTexts} :
          DecideRetry(retryCount, error)
    \/ \E error \in {<<>>} \cup {<<text>> : text \in ErrorTexts} : Classify(error)

ErrSpec == EInit /\ [][ENext]_vars

\* C11: a failure with a non-retryable error is never retried, whatever budget
\* remains: for a message with retryCount < maxRetries, shouldRetry is false for
\* every error text that classifyError classifies as not retryable, and true for
\* the temporary error 'temporary timeout'
C11_NonRetryableNeverRetried ==
    \A d \in {lastRetryDecision[i] : i \in DOMAIN lastRetryDecision} :
        d.message.retryCount < d.message.maxRetries =>
            /\ (d.error # <<>> /\ ~classifyError(d.error).retryable) => ~d.retry
            /\ d.error = <<{"temporary timeout"}>> => d.retry

ErrorClasses == {"temporary", "permanent", "rate_limit", "compliance", "unknown"}

\* The error text reports a permanent or a compliance condition
ReportsPermanentOrCompliance(text) ==
    \/ TextIncludes(text, "invalid recipient") \/ TextIncludes(text, "unsubscribed")
    \/ TextIncludes(text, "blocked") \/ TextIncludes(text, "compliance")

\* C12: classifyError gives every error one class and the class fixes retryability:
\* temporary, rate_limit and unknown are retryable, permanent and compliance are
\* not; an error text that reports a permanent or compliance condition is never
\* classified as retryable, whatever else it mentions
C12_ClassFixesRetryability ==
    \A c \in {lastClassification[i] : i \in DOMAIN lastClassification} :
        /\ c.result.type \in ErrorClasses
        /\ c.result.retryable <=> c.result.type \in {"temporary", "rate_limit", "unknown"}
        /\ (c.error # <<>> /\ ReportsPermanentOrCompliance(c.error[1])) => ~c.result.retryable

----------------------------------------------------------------------------
(* calculateNextRetry and shouldRetry on drawn retry configurations *)

\* The highest retryCount of a drawn message
MaxRetryCount == 4

Seconds(t) == t * 3600

\* RetryLogic values: the one of the service, and others with short tables, with
\* a delay of 0 in the table, with no backoff and with a low ceiling
RetryConfigs ==
    {defaultRetryLogic}
    \cup { [maxRetries |-> maxRetries, retryDelays |-> retryDelays,
            backoffMultiplier |-> backoffMultiplier, maxDelaySeconds |-> maxDelaySeconds,
            retryableErrors |-> defaultRetryLogic.retryableErrors] :
              maxRetries \in {0, 2, 3, MaxRetryCount},
              retryDelays \in {<<60, 300, 900>>, <<60, 0, 900>>, <<0, 300>>, <<30>>, <<>>},
              backoffMultiplier \in {1, 2},
              maxDelaySeconds \in {100, 3600} }

RInit ==
    /\ now = StartHour
    /\ consentHistory = <<>>
    /\ communicationHistory = <<>>
    /\ pc = [w \in Workers |-> "idle"]
    /\ wreq = [w \in Workers |-> <<>>]
    /\ wprofile = [w \in Workers |-> <<>>]
    /\ wresult = [w \in Workers |-> <<>>]
    /\ FrequencyIdle /\ ErrorIdle /\ EvaluatorIdle /\ SendIdle /\ DeliveryIdle

\* One call of calculateNextRetry, and one of shouldRetry, on a failed message that
\* has been retried retryCount times
ScheduleRetry(retryCount, retryLogic) ==
    /\ LET created == createCommunicationMessage(
                          Body(<<"cust">>, <<"sms">>, <<"reminder">>, <<>>, <<>>, <<>>, {}), 1, now)
           m == [updateDeliveryStatus(created, "failed", <<>>, <<>>, now)
                    EXCEPT !.retryCount = retryCount]
       IN  lastSchedule' = <<[message |-> m, retryLogic |-> retryLogic, at |-> Seconds(now),
                              nextRetry |-> calculateNextRetry(m, retryLogic, Seconds(now)),
                              retry |-> shouldRetry(m, <<>>)]>>
    /\ UNCHANGED <<lastRetryDecision, lastClassification, lastChannelChoice, lastWebhook, lastTcpaTime, cvars, fvars, qvars, svars,
                   mvars>>

RNext ==
    \E retryCount \in 0..MaxRetryCount, retryLogic \in RetryConfigs :
        ScheduleRetry(retryCount, retryLogic)

RetrySpec == RInit /\ [][RNext]_vars

Scheduled == {lastSchedule[i] : i \in DOMAIN lastSchedule}

\* C23: calculateNextRetry returns no time exactly when retryCount >= maxRetries;
\* otherwise now + d seconds, where d is retryDelays[retryCount] whenever
\* retryCount is an index of the table, whatever is configured there, 0 included,
\* and min(retryDelays[0] * backoffMultiplier^retryCount, maxDelaySeconds) past
\* the end of the table
C23_NextRetryDelay ==
    \A s \in Scheduled :
        LET retryCount == s.message.retryCount
            table == s.retryLogic.retryDelays
        IN  /\ s.nextRetry = <<>> <=> retryCount >= s.retryLogic.maxRetries
            /\ (retryCount < s.retryLogic.maxRetries /\ retryCount < Len(table))
                  => s.nextRetry = <<s.at + table[retryCount + 1]>>
            /\ (retryCount < s.retryLogic.maxRetries /\ retryCount >= Len(table) /\ Len(table) > 0)
                  => s.nextRetry
                       = <<s.at + Min2(table[1] * Pow(s.retryLogic.backoffMultiplier, retryCount),
                                       s.retryLogic.maxDelaySeconds)>>

\* C28: shouldRetry and calculateNextRetry agree on the exhaustion of the retry
\* budget for the messages the service creates and the retry configuration it
\* uses: when shouldRetry is true calculateNextRetry returns a time, when
\* calculateNextRetry returns none shouldRetry is false, and no time is returned
\* once the message's own maxRetries is reached
C28_RetryBudgetAgreement ==
    \A s \in Scheduled :
        s.retryLogic = defaultRetryLogic =>
            /\ s.retry => s.nextRetry # <<>>
            /\ s.nextRetry = <<>> => ~s.retry
            /\ s.message.retryCount >= s.message.maxRetries => s.nextRetry = <<>>

\* C28 witness: both were called on the last retry of the budget, and both grant it
C28_Witness ==
    \E s \in Scheduled :
        /\ s.retryLogic = defaultRetryLogic
        /\ s.message.retryCount = s.message.maxRetries - 1
        /\ s.retry
        /\ s.nextRetry = <<s.at + 900>>

----------------------------------------------------------------------------
(* determineNextChannel on drawn attempts and preferences *)

\* The most delivery attempts of one message
MaxAttempts == 3

Providers == {"sendgrid", "twilio", "twilio_voice"}

\* The attempts made so far, numbered from 1
AttemptLists(t) ==
    UNION { { [i \in 1..n |-> createDeliveryAttempt(1, i, providers[i], t)] :
                providers \in [1..n -> Providers] } : n \in 0..MaxAttempts }

ChannelPreferences ==
    [ {"email", "sms", "phone"} -> {[enabled |-> TRUE], [enabled |-> FALSE]} ]

NInit ==
    /\ now = StartHour
    /\ consentHistory = <<>>
    /\ communicationHistory = <<>>
    /\ pc = [w \in Workers |-> "idle"]
    /\ wreq = [w \in Workers |-> <<>>]
    /\ wprofile = [w \in Workers |-> <<>>]
    /\ wresult = [w \in Workers |-> <<>>]
    /\ FrequencyIdle /\ ErrorIdle /\ EvaluatorIdle /\ SendIdle /\ DeliveryIdle

\* One call of determineNextChannel for a message that is on channel current
ChooseChannel(current, previousAttempts, preferences) ==
    /\ lastChannelChoice' = <<[current |-> current, previousAttempts |-> previousAttempts,
                               preferences |-> preferences,
                               channel |-> determineNextChannel(previousAttempts, preferences)]>>
    /\ UNCHANGED <<lastRetryDecision, lastClassification, lastSchedule, lastWebhook, lastTcpaTime, cvars, fvars, qvars, svars,
                   mvars>>

NNext ==
    \E current \in {"email", "sms", "phone"}, previousAttempts \in AttemptLists(now),
       preferences \in ChannelPreferences :
        ChooseChannel(current, previousAttempts, preferences)

ChannelSpec == NInit /\ [][NNext]_vars

Chosen == {lastChannelChoice[i] : i \in DOMAIN lastChannelChoice}

\* The channel is enabled and no attempt of the choice went over it: an attempt
\* by sendgrid is one over email, by twilio over sms, by twilio_voice over phone
Qualifies(channel, choice) ==
    /\ choice.preferences[channel].enabled
    /\ \A i \in DOMAIN choice.previousAttempts :
          choice.previousAttempts[i].provider
              # (CASE channel = "email" -> "sendgrid"
                  [] channel = "sms" -> "twilio"
                  [] channel = "phone" -> "twilio_voice")

\* C24: the channel of a retry is the current channel of the message when that is
\* enabled and not yet attempted; otherwise the first of email, sms, phone that
\* is enabled and not yet attempted, and none when no channel qualifies; it is
\* never a disabled channel and never one already attempted
C24_ChannelSelection ==
    \A choice \in Chosen :
        /\ Qualifies(choice.current, choice) => choice.channel = <<choice.current>>
        /\ ~Qualifies(choice.current, choice) =>
              choice.channel =
                  (IF Qualifies("email", choice) THEN <<"email">>
                   ELSE IF Qualifies("sms", choice) THEN <<"sms">>
                   ELSE IF Qualifies("phone", choice) THEN <<"phone">> ELSE <<>>)
        /\ choice.channel # <<>> => Qualifies(choice.channel[1], choice)

----------------------------------------------------------------------------
(* Communication service: provider webhooks *)

\* The most webhooks handled in one run
MaxWebhooks == 2

\* The x-provider header, if there is one
WebhookProviders == {<<>>, <<"sendgrid">>, <<"twilio">>}

\* Bodies of SendGrid events and Twilio status callbacks, each field there or not
WebhookPayloads ==
    [message_id : {<<>>, <<"msg_1">>},
     id : {<<>>},
     event : {<<>>, <<"delivered">>, <<"dropped">>, <<"bounce">>, <<"processed">>, <<"open">>},
     status : {<<>>, <<"delivered">>, <<"failed">>, <<"queued">>, <<"undelivered">>},
     error : {<<>>},
     reason : {<<>>, <<"Bounced address">>}]

WInit ==
    /\ now = StartHour
    /\ consentHistory = <<>>
    /\ communicationHistory = <<>>
    /\ pc = [w \in Workers |-> "idle"]
    /\ wreq = [w \in Workers |-> <<>>]
    /\ wprofile = [w \in Workers |-> <<>>]
    /\ wresult = [w \in Workers |-> <<>>]
    /\ FrequencyIdle /\ ErrorIdle /\ EvaluatorIdle /\ SendIdle /\ DeliveryIdle

\* handleWebhook: without the provider header 400; otherwise the body is parsed,
\* the event is logged and 200 is returned
HandleWebhook(provider, body) ==
    /\ Len(responses) < MaxWebhooks
    /\ IF provider = <<>> THEN
           /\ responses' = Append(responses, Response(400, <<"Provider header required">>))
           /\ UNCHANGED <<eventLog, lastWebhook>>
       ELSE
           LET parsed == parseProviderWebhook(provider[1], body)
               logEntry == CommunicationEvent("message_delivered", parsed.messageId, "unknown",
                                              "email", now)
           IN  /\ eventLog' = Append(eventLog, logEntry)
               /\ lastWebhook' = <<[provider |-> provider[1], payload |-> body,
                                    parsed |-> parsed, logged |-> logEntry]>>
               /\ responses' = Append(responses, Response(200, <<"received">>))
    /\ UNCHANGED <<hpc, hmessage, complianceChecks, queue, nextId>>
    /\ UNCHANGED <<lastRetryDecision, lastClassification, lastSchedule, lastChannelChoice,
                   lastTcpaTime, cvars, fvars, qvars, mvars>>

WNext == \E provider \in WebhookProviders, body \in WebhookPayloads : HandleWebhook(provider, body)

WebhookSpec == WInit /\ [][WNext]_vars

Webhooks == {lastWebhook[i] : i \in DOMAIN lastWebhook}

\* What the provider reports in the payload
ReportsDelivery(payload) == payload.event = <<"delivered">> \/ payload.status = <<"delivered">>
ReportsFailure(payload) ==
    payload.event \in {<<"dropped">>, <<"bounce">>} \/ payload.status = <<"failed">>
ReportsQueued(payload) == payload.event = <<"processed">> \/ payload.status = <<"queued">>

\* C29: provider feedback is normalized without inventing success: the parsed
\* status is delivered only when the payload reports a delivery; a payload that
\* reports a drop, bounce or failure is parsed as failed, a queued or processed one
\* as pending, one with an unrecognised or missing event and status not as
\* delivered; and the handler logs a delivered event only when the parsed status
\* is delivered
C29_NoInventedDelivery ==
    \A w \in Webhooks :
        /\ w.parsed.status = "delivered" => ReportsDelivery(w.payload)
        /\ ReportsFailure(w.payload) => w.parsed.status = "failed"
        /\ (ReportsQueued(w.payload) /\ ~ReportsFailure(w.payload)) => w.parsed.status = "pending"
        /\ w.logged.type = "message_delivered" => w.parsed.status = "delivered"

----------------------------------------------------------------------------
(* Shared calling-hours helpers *)

\* The hours the clock passes through: two days
MaxHour == 47

\* Hours the customer's timezone is ahead of the clock of the service (21 is 3
\* hours behind, on the clock face)
TimezoneOffsets == {0, 3, 21}

\* parseInt(now.toLocaleTimeString('en-US', {timeZone, hour: '2-digit', hour12: false})):
\* midnight is the hour an engine formats as 00 or as 24
LocalHour(t, timezone, midnight) ==
    IF (t + timezone) % 24 = 0 THEN midnight ELSE (t + timezone) % 24

isTcpaCompliantTime(timezone, t, midnight) ==
    LET hour == LocalHour(t, timezone, midnight)
    IN  hour >= 8 /\ hour <= 21

\* setHours and setDate work on the clock of the service
getNextTcpaCompliantTime(timezone, t, midnight) ==
    LET hour == LocalHour(t, timezone, midnight)
    IN  IF hour < 8 THEN SameDayAt(t, 8)
        ELSE IF hour >= 21 THEN NextDayAt(t, 8)
        ELSE t

TInit ==
    /\ now = 0
    /\ consentHistory = <<>>
    /\ communicationHistory = <<>>
    /\ pc = [w \in Workers |-> "idle"]
    /\ wreq = [w \in Workers |-> <<>>]
    /\ wprofile = [w \in Workers |-> <<>>]
    /\ wresult = [w \in Workers |-> <<>>]
    /\ FrequencyIdle /\ ErrorIdle /\ EvaluatorIdle /\ SendIdle /\ DeliveryIdle

\* One call of each helper at the same instant
CheckTcpaTime(timezone, midnight) ==
    /\ lastTcpaTime' = <<[timezone |-> timezone, at |-> now, midnight |-> midnight,
                          compliant |-> isTcpaCompliantTime(timezone, now, midnight),
                          next |-> getNextTcpaCompliantTime(timezone, now, midnight)]>>
    /\ UNCHANGED <<lastRetryDecision, lastClassification, lastSchedule, lastChannelChoice,
                   lastWebhook, cvars, fvars, qvars, svars, mvars>>

\* An hour passes
HourPasses ==
    /\ now < MaxHour
    /\ now' = now + 1
    /\ lastTcpaTime' = <<>>
    /\ UNCHANGED <<consentHistory, communicationHistory, pc, wreq, wprofile, wresult, fvars, qvars,
                   svars, mvars>>
    /\ UNCHANGED <<lastRetryDecision, lastClassification, lastSchedule, lastChannelChoice,
                   lastWebhook>>

TNext ==
    \/ \E timezone \in TimezoneOffsets, midnight \in {0, 24} : CheckTcpaTime(timezone, midnight)
    \/ HourPasses

TcpaSpec == TInit /\ [][TNext]_vars

TcpaTimes == {lastTcpaTime[i] : i \in DOMAIN lastTcpaTime}

\* C30: the two helpers agree at every hour: getNextTcpaCompliantTime returns the
\* current time exactly when isTcpaCompliantTime is true, and otherwise a later
\* time at which isTcpaCompliantTime is true: 08:00 of the same day before the
\* window, 08:00 of the next day after it
C30_HelpersAgree ==
    \A c \in TcpaTimes :
        /\ c.next = c.at <=> c.compliant
        /\ ~c.compliant =>
              /\ c.next > c.at
              /\ isTcpaCompliantTime(c.timezone, c.next, c.midnight)
              /\ c.next = (IF (c.at + c.timezone) % 24 < 8
                           THEN SameDayAt(c.at, 8) ELSE NextDayAt(c.at, 8))

----------------------------------------------------------------------------
(* Delivery state machine of one message.  The clock is the time of the    *)
(* week: when the week turns, the timer the message waits for is rebased   *)
(* by one week and the records of the past week, which no check reads any  *)
(* more, leave the history.                                                *)

Terminal == {"delivered", "permanently_failed", "retries_exhausted"}

\* The error texts the gateway reports with a failure: none (a timeout), a
\* transient error, and an invalid recipient in words and as an error code
Errors == {<<>>, <<{"temporary", "timeout"}>>, <<{"Invalid recipient"}>>, <<{"invalid_recipient"}>>}

DeliveryBodies ==
    { Body(<<"cust">>, <<"phone">>, <<"reminder">>, <<>>, <<>>, <<FullDisclosure>>, {}),
      Body(<<"cust">>, <<"email">>, <<"reminder">>, <<>>, <<"Payment due">>, <<FullDisclosure>>, {}),
      Body(<<"cust">>, <<"sms">>, <<"reminder">>, <<>>, <<>>, <<>>, {}) }

\* The message is submitted at one of the hours of Sunday the clock passes through
MInit ==
    /\ now \in {k * StepHours : k \in 0..(23 \div StepHours)}
    /\ consentHistory \in {<<>>, FullConsent}
    /\ communicationHistory = <<>>
    /\ pc = [w \in Workers |-> "idle"]
    /\ wreq = [w \in Workers |-> <<>>]
    /\ wprofile = [w \in Workers |-> <<>>]
    /\ wresult = [w \in Workers |-> <<>>]
    /\ FrequencyIdle /\ ErrorIdle /\ EvaluatorIdle /\ SendIdle /\ DeliveryIdle

quiet == <<pc, wreq, wprofile, wresult, fvars, evars, qvars, svars>>

\* SubmitCommunication(request): the message is created, pending
Submit(body) ==
    /\ state = "none"
    /\ validateCommunicationRequest(body).isValid
    /\ message' = <<createCommunicationMessage(body, 1, now)>>
    /\ state' = "pending"
    /\ UNCHANGED <<now, consentHistory, communicationHistory, msgNextAllowedTime, attempts, quiet>>

\* pending -> evaluating
Dispatch ==
    /\ state = "pending"
    /\ state' = "evaluating"
    /\ UNCHANGED <<now, consentHistory, communicationHistory, message, msgNextAllowedTime,
                   attempts, quiet>>

\* evaluating -> in_flight or blocked: one checkCompliance of the message
Evaluate ==
    /\ state = "evaluating"
    /\ LET m == message[1]
           request == [communicationId |-> m.id, channel |-> m.channel,
                       content |-> m.content, strategy |-> m.strategy]
           result == EvaluateChecks(request, Get, now)
       IN  /\ communicationHistory' =
                AppendComplianceRecord(communicationHistory, ComplianceRecord(request, result, now))
           /\ IF result.canProceed THEN
                  /\ state' = "in_flight"
                  /\ attempts' = Append(attempts,
                        createDeliveryAttempt(m.id, Len(attempts) + 1, "gateway", now))
                  /\ msgNextAllowedTime' = <<>>
              ELSE
                  /\ state' = "blocked"
                  /\ msgNextAllowedTime' = result.nextAllowedTime
                  /\ UNCHANGED attempts
    /\ UNCHANGED <<now, consentHistory, message, quiet>>

\* in_flight -> delivered, retry_scheduled, permanently_failed or retries_exhausted:
\* the gateway's feedback on the open attempt
OnFeedback(status, error) ==
    /\ state = "in_flight"
    /\ status = "delivered" => error = <<>>
    /\ LET m == updateDeliveryStatus(message[1], status, <<"provider-id">>, error, now)
       IN  IF status = "delivered" THEN
               /\ message' = <<m>>
               /\ state' = "delivered"
           ELSE IF shouldRetry(m, error) THEN
               /\ message' = <<[m EXCEPT
                      !.nextRetryAt = calculateNextRetry(m, defaultRetryLogic, Seconds(now)),
                      !.retryCount = @ + 1]>>
               /\ state' = "retry_scheduled"
           ELSE
               /\ message' = <<m>>
               /\ state' = IF m.retryCount >= m.maxRetries THEN "retries_exhausted"
                           ELSE "permanently_failed"
    /\ UNCHANGED <<now, consentHistory, communicationHistory, msgNextAllowedTime, attempts, quiet>>

RetryDue ==
    /\ state = "retry_scheduled"
    /\ message[1].nextRetryAt # <<>>
    /\ Seconds(now) >= message[1].nextRetryAt[1]

AllowedDue ==
    /\ state = "blocked"
    /\ msgNextAllowedTime # <<>>
    /\ now > msgNextAllowedTime[1]

\* retry_scheduled -> evaluating, once nextRetryAt has passed
RetryTimer ==
    /\ RetryDue
    /\ state' = "evaluating"
    /\ UNCHANGED <<now, consentHistory, communicationHistory, message, msgNextAllowedTime,
                   attempts, quiet>>

\* blocked -> evaluating, once nextAllowedTime has passed
AllowedTimer ==
    /\ AllowedDue
    /\ state' = "evaluating"
    /\ UNCHANGED <<now, consentHistory, communicationHistory, message, msgNextAllowedTime,
                   attempts, quiet>>

\* The clock advances when no step of the message is due
Pass ==
    /\ state \notin {"none", "pending", "evaluating", "in_flight"}
    /\ ~RetryDue /\ ~AllowedDue
    /\ LET week == 7 * 24
           turns == now + StepHours >= week
       IN  /\ now' = (now + StepHours) % week
           /\ communicationHistory' = IF turns THEN <<>> ELSE communicationHistory
           /\ msgNextAllowedTime' =
                IF turns /\ state = "blocked" /\ msgNextAllowedTime # <<>>
                THEN <<msgNextAllowedTime[1] - week>> ELSE msgNextAllowedTime
           /\ message' =
                IF turns /\ state = "retry_scheduled" /\ message[1].nextRetryAt # <<>>
                THEN <<[message[1] EXCEPT !.nextRetryAt = <<@[1] - Seconds(week)>>]>>
                ELSE message
    /\ UNCHANGED <<consentHistory, state, attempts, quiet>>

MNext ==
    \/ \E body \in DeliveryBodies : Submit(body)
    \/ Dispatch
    \/ Evaluate
    \/ \E status \in {"delivered", "failed"}, error \in Errors : OnFeedback(status, error)
    \/ RetryTimer
    \/ AllowedTimer
    \/ Pass

\* Every attempt resolves, timers fire, time passes
MsgSpec ==
    /\ MInit /\ [][MNext]_vars
    /\ WF_vars(Dispatch) /\ WF_vars(Evaluate)
    /\ WF_vars(\E status \in {"delivered", "failed"}, error \in Errors : OnFeedback(status, error))
    /\ WF_vars(RetryTimer) /\ WF_vars(AllowedTimer) /\ WF_vars(Pass)

----------------------------------------------------------------------------
(* Properties of the delivery state machine *)

\* The step is the gateway's report of a failure of the open attempt
FailureStep == state = "in_flight" /\ state' # "in_flight" /\ message'[1].deliveryStatus = "failed"

C8_EventuallyTerminal == (state # "none") ~> (state \in Terminal)

\* C9: terminal states are absorbing: feedback applied through updateDeliveryStatus
\* to a message in a terminal state leaves its delivery status as it is, and
\* shouldRetry is false for it
C9_TerminalAbsorbing ==
    state \in Terminal =>
        /\ \A status \in {"pending", "delivered", "failed"}, e \in Errors :
              updateDeliveryStatus(message[1], status, <<>>, e, now).deliveryStatus
                  = message[1].deliveryStatus
        /\ \A e \in Errors : ~shouldRetry(message[1], e)

=============================================================================
